---- MODULE Spec2Model ----
(***************************************************************************)
(* The Plex status/log reporting channel of plex-ffmpeg (fftools/plex.c):  *)
(* PMS_IssueHttpRequest, PMS_Log, plex_log_callback and the notifiers      *)
(* built on them, run by several threads.                                  *)
(***************************************************************************)
EXTENDS Integers, Sequences, FiniteSets, TLC

\* ------------------------------------------------------------------ bounds
NumThreads == 2
MaxFragments == 2

\* --------------------------------------------------------------- constants
LOG_LINE_SIZE == 1024
FallbackSize == 4095

AV_LOG_QUIET == -8
AV_LOG_ERROR == 16
AV_LOG_WARNING == 24
AV_LOG_INFO == 32
LOG_LEVEL_ERROR == 0

\* AV_TIME_BASE, and AV_NOPTS_VALUE: the least value of the duration's type
\* (INT64_MIN in the code, the least integer at hand here)
AV_TIME_BASE == 1000000
AV_NOPTS_VALUE == -2147483647

NULL == "NULL"
Threads == 1 .. NumThreads
MainThread == 1

\* severities of the events handed to the log callback, thresholds given to -loglevel_plex
Levels == {AV_LOG_QUIET, AV_LOG_ERROR, AV_LOG_WARNING}
Thresholds == {AV_LOG_QUIET, AV_LOG_ERROR, AV_LOG_INFO}

\* the logging context handed to av_log: none, or an object with an AVClass
Ptrs == {NULL, "ctx"}

\* the X_PLEX_TOKEN variable of the environment: unset, empty, or a token
Tokens == {NULL, "", "abc123"}

\* a stream as the notifiers read it: st->codecpar->codec_type (by the name
\* av_get_media_type_string gives it), the AV_DISPOSITION_ bits set in
\* st->disposition, and codec_info_nb_frames_total
MediaTypes == {"video", "audio", "subtitle", "data"}
Dispositions == {"default", "attached_pic"}
Streams == [codec_type : MediaTypes, disposition : SUBSET Dispositions, nb_frames : {0, 3}]
NoStream == [codec_type |-> "none", disposition |-> {}, nb_frames |-> 0]

\* the container handed to plex_feedback: ic may be NULL (present is FALSE)
Containers ==
    {[present |-> FALSE, duration |-> 0],
     [present |-> TRUE, duration |-> AV_NOPTS_VALUE],
     [present |-> TRUE, duration |-> 0],
     [present |-> TRUE, duration |-> 1500000]}
NoContainer == [present |-> FALSE, duration |-> 0]

\* ----------------------------------------------------------------- strings
\* a C string is the sequence of its characters, the terminating 0 left out
Rep(c, n) == [i \in 1 .. n |-> c]
Take(s, n) == IF Len(s) <= n THEN s ELSE SubSeq(s, 1, n)
IsTerminator(c) == c = "\n" \/ c = "\r"

\* the texts the events format to (fmt with its arguments applied)
LongText == Rep("x", LOG_LINE_SIZE - 2)
ShortTexts == {<<"a">>, <<"b", "\n">>}
Texts == ShortTexts \cup {LongText}

\* "[%s @ %p] " of a context with a class, shortened
ContextPrefix(ptr) == IF ptr = NULL THEN <<>> ELSE <<"[", "c", "]", " ">>

\* av_log_format_line: the prefix is printed when *print_prefix is set on entry;
\* on return *print_prefix says whether the text ended a line. The result is
\* cut to line_size - 1 characters (snprintf).
av_log_format_line(ptr, text, print_prefix, line_size) ==
    LET prefix == IF print_prefix THEN ContextPrefix(ptr) ELSE <<>>
        full == prefix \o text
    IN  [line |-> Take(full, line_size - 1),
         print_prefix |-> IF full = <<>> THEN print_prefix
                          ELSE Len(text) > 0 /\ IsTerminator(text[Len(text)])]

\* av_strlcat(dst, src, size): dst holds at most size - 1 characters afterwards
av_strlcat(dst, src, size) ==
    IF Len(dst) >= size - 1 THEN dst ELSE Take(dst \o src, size - 1)

\* av_bprint_escape(..., AV_ESCAPE_MODE_URL): unreserved characters are kept,
\* every other character becomes %XX; the result is the sequence of the
\* characters' encodings
EscapeChar(c) ==
    CASE c = " " -> "%20"
      [] c = "\n" -> "%0A"
      [] c = "\r" -> "%0D"
      [] c = "[" -> "%5B"
      [] c = "]" -> "%5D"
      [] OTHER -> c

av_bprint_escape(s) == [i \in 1 .. Len(s) |-> EscapeChar(s[i])]

\* the decimal digit of n at the place p (1, 10, 100, ...)
Digit(n, p) == ToString((n \div p) % 10)

\* printf("%f") of us / (double)AV_TIME_BASE: six digits after the point
FormatF(us) ==
    LET a == IF us < 0 THEN 0 - us ELSE us
        frac == a % AV_TIME_BASE
    IN  (IF us < 0 THEN "-" ELSE "") \o ToString(a \div AV_TIME_BASE) \o "."
           \o Digit(frac, 100000) \o Digit(frac, 10000) \o Digit(frac, 1000)
           \o Digit(frac, 100) \o Digit(frac, 10) \o Digit(frac, 1)

\* ------------------------------------------------------------------- state
VARIABLES
    ioctx,              \* static AVIOContext *ioctx: NULL or the open connection
    req_mutex,          \* static req_mutex: its owner, or NoThread
    av_log_level_plex,  \* the reporting threshold
    progress_url,       \* plexContext.progress_url
    using_http,         \* per thread: using_http_key
    logging,            \* per thread: logging_key
    cur_line_key,       \* per thread: has the line buffer been allocated
    cur_line,           \* per thread: the text in the line buffer
    pc,                 \* per thread: where it is inside PMS_IssueHttpRequest
    call,               \* per thread: the locals of its PMS_IssueHttpRequest call
    openConns,          \* transport connections opened and not yet closed
    lastFailed,         \* did the request that released the lock last fail
    lastCb,             \* what the last plex_log_callback invocation did
    lastIssue,          \* how the last PMS_IssueHttpRequest call returned
    pending,            \* per thread: the texts accepted since the last line end
    log_callback,       \* the callback av_log hands its events to
    token,              \* getenv("X_PLEX_TOKEN")
    conn_headers,       \* the "headers" setting the open connection was made with
    lastNote            \* what the last notifier or option handler invocation did

vars == <<ioctx, req_mutex, av_log_level_plex, progress_url, using_http, logging,
          cur_line_key, cur_line, pc, call, openConns, lastFailed, lastCb, lastIssue, pending,
          log_callback, token, conn_headers, lastNote>>

threadLocal == <<using_http, logging, cur_line_key, cur_line>>
shared == <<ioctx, req_mutex, openConns, lastFailed, conn_headers>>
config == <<av_log_level_plex, progress_url, log_callback, token>>

NoThread == 0
NullReply == [cap |-> 0, len |-> 0]
NoCall == [from |-> "none"]
NoCb == [trace |-> <<>>]
NoIssue == [returned |-> FALSE, turnedAway |-> FALSE, failed |-> FALSE, reply |-> NullReply,
            size |-> 0, declared |-> 0]
NoUrl == [base |-> NULL, path |-> ""]
NoNote == [fn |-> "none", via |-> "none", hadBase |-> FALSE, st |-> NoStream,
           ic |-> NoContainer, issued |-> 0, url |-> NoUrl, verb |-> ""]

\* the state main() starts in, the environment being that of the run r
InitOn(r) ==
    /\ log_callback = "av_log_default_callback"
    /\ token \in r.tokens
    /\ conn_headers = <<>>
    /\ lastNote = NoNote
    /\ ioctx = NULL
    /\ req_mutex = NoThread
    /\ av_log_level_plex = AV_LOG_QUIET
    /\ progress_url = NULL
    /\ using_http = [t \in Threads |-> FALSE]
    /\ logging = [t \in Threads |-> FALSE]
    /\ cur_line_key = [t \in Threads |-> FALSE]
    /\ cur_line = [t \in Threads |-> <<>>]
    /\ pc = [t \in Threads |-> "idle"]
    /\ call = [t \in Threads |-> NoCall]
    /\ openConns = 0
    /\ lastFailed = FALSE
    /\ lastCb = NoCb
    /\ lastIssue = NoIssue
    /\ pending = [t \in Threads |-> <<>>]

\* --------------------------------------------------- PMS_IssueHttpRequest
\* the positions of a thread inside PMS_IssueHttpRequest at which the
\* transport is running on its behalf (and may call av_log)
TransportPcs == {"reuse", "open", "read"}

Urls == {"http://pms/progress"}
DefaultLogBase == "http://127.0.0.1:32400"

\* what avio_size may answer: a content length, or a negative value (unknown)
SizeAnswers == {-1, 2}

GuardNever(t) == FALSE
GuardOnLogging(t) == logging[t]
GuardOutsideLock(t) == using_http[t] /\ req_mutex # t
GuardGlobal(t) == \E u \in DOMAIN using_http : using_http[u]

\* the guard at the head of PMS_IssueHttpRequest: a thread already inside is
\* turned away with NULL
GuardTurnsAway(t) == using_http[t]

TurnedAwayBuffer == [cap |-> 1, len |-> 0]

\* what the guard returns to the caller it turns away
TurnedAwayReply == NullReply

\* entry of PMS_IssueHttpRequest(url, verb), called from `from`: the guard,
\* then the flag is set and the thread goes for the lock
IssueEnter(t, url, verb, from) ==
    IF GuardTurnsAway(t)
    THEN /\ lastIssue' = [returned |-> TRUE, turnedAway |-> TRUE, failed |-> FALSE,
                         reply |-> TurnedAwayReply, size |-> 0, declared |-> 0]
         /\ UNCHANGED <<using_http, pc, call>>
    ELSE /\ using_http' = [using_http EXCEPT ![t] = TRUE]
         /\ pc' = [pc EXCEPT ![t] = "lock"]
         /\ call' = [call EXCEPT ![t] =
                [from |-> from, url |-> url, verb |-> verb, ret |-> 0, reply |-> NullReply,
                 reuseTried |-> FALSE, openTried |-> FALSE, afterFailed |-> FALSE,
                 token |-> token, declared |-> 0, size |-> 0, sent |-> <<>>]]
         /\ UNCHANGED lastIssue

ClosedConnsLeak == openConns

\* avio_closep(&ioctx): closes the connection, if any, and clears the handle
ClosedConns == IF ioctx = NULL THEN openConns ELSE openConns - 1

LockNoWait(t) ==
    /\ pc[t] = "lock"
    /\ req_mutex' = t
    /\ pc' = [pc EXCEPT ![t] = IF ioctx # NULL THEN "reuse" ELSE "open"]
    /\ call' = [call EXCEPT ![t].afterFailed = lastFailed]
    /\ UNCHANGED <<ioctx, openConns, lastFailed, conn_headers, threadLocal, config, lastCb,
                   lastNote, lastIssue, pending>>

\* pthread_mutex_lock(&req_mutex), then the test of ioctx
Lock(t) ==
    /\ pc[t] = "lock"
    /\ req_mutex = NoThread
    /\ req_mutex' = t
    /\ pc' = [pc EXCEPT ![t] = IF ioctx # NULL THEN "reuse" ELSE "open"]
    /\ call' = [call EXCEPT ![t].afterFailed = lastFailed]
    /\ UNCHANGED <<ioctx, openConns, lastFailed, conn_headers, threadLocal, config, lastCb,
                   lastNote, lastIssue, pending>>

\* the headers a request made on an open connection carries: those the
\* connection was opened with
SentOnReuse(headers) == headers

ReuseKeepsStale(t, ok) ==
    /\ pc[t] = "reuse"
    /\ IF ok
       THEN /\ pc' = [pc EXCEPT ![t] = "read"]
            /\ call' = [call EXCEPT ![t].reuseTried = TRUE, ![t].ret = 0,
                                    ![t].sent = SentOnReuse(conn_headers)]
       ELSE /\ pc' = [pc EXCEPT ![t] = "open"]
            /\ call' = [call EXCEPT ![t].reuseTried = TRUE, ![t].ret = -1]
    /\ UNCHANGED <<ioctx, openConns, conn_headers>>
    /\ UNCHANGED <<req_mutex, lastFailed, threadLocal, config, lastCb, lastNote, lastIssue,
                   pending>>

\* avformat_http_do_new_request on the existing handle; on failure the handle
\* is closed
Reuse(t, ok) ==
    /\ pc[t] = "reuse"
    /\ IF ok
       THEN /\ pc' = [pc EXCEPT ![t] = "read"]
            /\ call' = [call EXCEPT ![t].reuseTried = TRUE, ![t].ret = 0,
                                    ![t].sent = SentOnReuse(conn_headers)]
            /\ UNCHANGED <<ioctx, openConns, conn_headers>>
       ELSE /\ pc' = [pc EXCEPT ![t] = "open"]
            /\ call' = [call EXCEPT ![t].reuseTried = TRUE, ![t].ret = -1]
            /\ ioctx' = NULL
            /\ openConns' = ClosedConns
            /\ conn_headers' = <<>>
    /\ UNCHANGED <<req_mutex, lastFailed, threadLocal, config, lastCb, lastNote, lastIssue,
                   pending>>

HandleKept(ret, handle) == handle

\* the fail: label: on a negative ret the handle is closed and the reply freed
HandleAfter(ret, handle) == IF ret < 0 THEN NULL ELSE handle
ReplyAfter(ret, reply) == IF ret < 0 THEN NullReply ELSE reply

TokenHeadersIfSet(tok) ==
    IF tok # NULL
    THEN <<"X-Plex-Token: " \o tok \o "\r\n", "X-Plex-Http-Pipeline: infinite\r\n">>
    ELSE <<>>

\* the "headers" setting of a connection about to be opened: the token header
\* and the pipelining hint when the token is set and not empty, else none
TokenHeaders(tok) ==
    IF tok # NULL /\ tok # ""
    THEN <<"X-Plex-Token: " \o tok \o "\r\n", "X-Plex-Http-Pipeline: infinite\r\n">>
    ELSE <<>>

\* avio_open2 of a fresh connection (ioctx is NULL here); on failure goto fail.
\* The connection keeps the headers it was opened with and sends them with
\* every request made on it.
Open(t, ok) ==
    /\ pc[t] = "open"
    /\ IF ok
       THEN /\ pc' = [pc EXCEPT ![t] = "read"]
            /\ call' = [call EXCEPT ![t].openTried = TRUE, ![t].ret = 0,
                                    ![t].sent = TokenHeaders(call[t].token)]
            /\ ioctx' = "conn"
            /\ openConns' = openConns + 1
            /\ conn_headers' = TokenHeaders(call[t].token)
       ELSE /\ pc' = [pc EXCEPT ![t] = "unlock"]
            /\ call' = [call EXCEPT ![t].openTried = TRUE, ![t].ret = -1,
                                    ![t].reply = ReplyAfter(-1, NullReply)]
            /\ ioctx' = HandleAfter(-1, ioctx)
            /\ openConns' = IF ioctx' = NULL THEN ClosedConns ELSE openConns
            /\ conn_headers' = IF ioctx' = NULL THEN <<>> ELSE conn_headers
    /\ UNCHANGED <<req_mutex, lastFailed, threadLocal, config, lastCb, lastNote, lastIssue,
                   pending>>

ReplyCapacityTight(size) == size

\* av_malloc(size + 1)
ReplyCapacity(size) == size + 1

\* avio_size, av_malloc(size + 1), avio_read, reply[ret] = 0, then fail:
\* avio_read gives n bytes, no more than size, or fails (n < 0); the
\* terminator is written at index len = ret
Read(t, answer, allocOk, n) ==
    /\ pc[t] = "read"
    /\ LET size == IF answer < 0 THEN FallbackSize ELSE answer
           ret == IF allocOk THEN n ELSE -1
           reply == IF allocOk
                    THEN [cap |-> ReplyCapacity(size), len |-> IF n < 0 THEN 0 ELSE n]
                    ELSE NullReply
       IN  /\ n <= size
           /\ call' = [call EXCEPT ![t].ret = ret, ![t].reply = ReplyAfter(ret, reply),
                                   ![t].declared = answer, ![t].size = size]
           /\ ioctx' = HandleAfter(ret, ioctx)
           /\ openConns' = IF ioctx' = NULL THEN ClosedConns ELSE openConns
           /\ conn_headers' = IF ioctx' = NULL THEN <<>> ELSE conn_headers
    /\ pc' = [pc EXCEPT ![t] = "unlock"]
    /\ UNCHANGED <<req_mutex, lastFailed, threadLocal, config, lastCb, lastNote, lastIssue,
                   pending>>

BufferShared(t) == MainThread

\* pthread_getspecific(cur_line_key): the line buffer of the calling thread
BufferOf(t) == t

ClearedNot(line) == line

\* cur_line[0] = 0
Cleared(line) == <<>>

UnlockLeavesLogging(t) ==
    /\ pc[t] = "unlock"
    /\ using_http' = [using_http EXCEPT ![t] = FALSE]
    /\ req_mutex' = NoThread
    /\ lastFailed' = (call[t].ret < 0)
    /\ lastIssue' = [returned |-> TRUE, turnedAway |-> FALSE, failed |-> call[t].ret < 0,
                     reply |-> call[t].reply, size |-> call[t].size,
                     declared |-> call[t].declared]
    /\ IF call[t].from = "log"
       THEN cur_line' = [cur_line EXCEPT ![BufferOf(t)] = Cleared(cur_line[BufferOf(t)])]
       ELSE UNCHANGED cur_line
    /\ UNCHANGED <<logging, cur_line_key>>
    /\ pc' = [pc EXCEPT ![t] = "idle"]
    /\ call' = [call EXCEPT ![t] = NoCall]
    /\ UNCHANGED <<ioctx, openConns, conn_headers, config, lastCb, lastNote, pending>>

UnlockKeepsLock(t) ==
    /\ pc[t] = "unlock"
    /\ using_http' = [using_http EXCEPT ![t] = FALSE]
    /\ lastFailed' = (call[t].ret < 0)
    /\ lastIssue' = [returned |-> TRUE, turnedAway |-> FALSE, failed |-> call[t].ret < 0,
                     reply |-> call[t].reply, size |-> call[t].size,
                     declared |-> call[t].declared]
    /\ IF call[t].from = "log"
       THEN /\ cur_line' = [cur_line EXCEPT ![BufferOf(t)] = Cleared(cur_line[BufferOf(t)])]
            /\ logging' = [logging EXCEPT ![t] = FALSE]
       ELSE UNCHANGED <<cur_line, logging>>
    /\ UNCHANGED <<req_mutex, cur_line_key>>
    /\ pc' = [pc EXCEPT ![t] = "idle"]
    /\ call' = [call EXCEPT ![t] = NoCall]
    /\ UNCHANGED <<ioctx, openConns, conn_headers, config, lastCb, lastNote, pending>>

UnlockKeepsFlagOnFailure(t) ==
    /\ pc[t] = "unlock"
    /\ using_http' = [using_http EXCEPT ![t] = call[t].ret < 0]
    /\ req_mutex' = NoThread
    /\ lastFailed' = (call[t].ret < 0)
    /\ lastIssue' = [returned |-> TRUE, turnedAway |-> FALSE, failed |-> call[t].ret < 0,
                     reply |-> call[t].reply, size |-> call[t].size,
                     declared |-> call[t].declared]
    /\ UNCHANGED <<cur_line, logging, cur_line_key>>
    /\ pc' = [pc EXCEPT ![t] = "idle"]
    /\ call' = [call EXCEPT ![t] = NoCall]
    /\ UNCHANGED <<ioctx, openConns, conn_headers, config, lastCb, lastNote, pending>>

\* the flag is cleared, the lock released and reply returned; the caller frees
\* the reply and finishes: plex_log_callback empties the line and clears logging
Unlock(t) ==
    /\ pc[t] = "unlock"
    /\ using_http' = [using_http EXCEPT ![t] = FALSE]
    /\ req_mutex' = NoThread
    /\ lastFailed' = (call[t].ret < 0)
    /\ lastIssue' = [returned |-> TRUE, turnedAway |-> FALSE, failed |-> call[t].ret < 0,
                     reply |-> call[t].reply, size |-> call[t].size,
                     declared |-> call[t].declared]
    /\ IF call[t].from = "log"
       THEN /\ cur_line' = [cur_line EXCEPT ![BufferOf(t)] = Cleared(cur_line[BufferOf(t)])]
            /\ logging' = [logging EXCEPT ![t] = FALSE]
       ELSE UNCHANGED <<cur_line, logging>>
    /\ UNCHANGED cur_line_key
    /\ pc' = [pc EXCEPT ![t] = "idle"]
    /\ call' = [call EXCEPT ![t] = NoCall]
    /\ UNCHANGED <<ioctx, openConns, conn_headers, config, lastCb, lastNote, pending>>

\* ------------------------------------------------------ plex_log_callback
PassesStrictly(level) == level < av_log_level_plex

\* the threshold test: an event less severe than the threshold is dropped
PassesThreshold(level) == ~(level > av_log_level_plex)

ReporterLevelOffByOne(level) ==
    IF level < AV_LOG_ERROR THEN LOG_LEVEL_ERROR ELSE (level \div 8) - 1

\* the severity handed to PMS_Log
ReporterLevel(level) ==
    IF level < AV_LOG_ERROR THEN LOG_LEVEL_ERROR ELSE (level \div 8) - 2

AppendUnbounded(cur, line) == cur \o line

\* av_strlcat(cur_line, line, LOG_LINE_SIZE)
AppendLine(cur, line) == av_strlcat(cur, line, LOG_LINE_SIZE)

KeepLast(s) == s

\* cur_line[len - 1] = 0
StripLast(s) == SubSeq(s, 1, Len(s) - 1)

\* PMS_Log returns at once under the quiet threshold
QuietDrop == av_log_level_plex = AV_LOG_QUIET

LogUrlOnBase(level, line) ==
    [base |-> progress_url, path |-> "/log", source |-> FALSE,
     level |-> level, message |-> av_bprint_escape(Take(line, 2047))]

\* PMS_Log: the message is formatted into msg[2048] and the URL is built
LogUrl(level, line) ==
    LET msg == Take(line, 2047)
    IN  IF progress_url # NULL
        THEN [base |-> progress_url, path |-> "/log", source |-> FALSE,
              level |-> level, message |-> av_bprint_escape(msg)]
        ELSE [base |-> DefaultLogBase, path |-> "/log", source |-> TRUE,
              level |-> level, message |-> av_bprint_escape(msg)]

RECURSIVE Flatten(_)
Flatten(ss) == IF ss = <<>> THEN <<>> ELSE Head(ss) \o Flatten(Tail(ss))

\* what one invocation of plex_log_callback met (the event, the threshold, the
\* thread's flags, whether a line buffer was to be had), what it did, in
\* order (trace), and what it handed to PMS_Log
Observation(t, level, text, allocOk, trace, msg, rlevel, expected, stripped) ==
    [level |-> level, stripped |-> stripped, threshold |-> av_log_level_plex, inHttp |-> using_http[t],
     logging |-> logging[t], buffer |-> cur_line_key[t] \/ allocOk,
     terminated |-> IsTerminator(text[Len(text)]),
     trace |-> trace, msg |-> msg, rlevel |-> rlevel, expected |-> expected]

NoForward == <<>>

\* the steps every invocation starts with: the default sink
Forward == <<"sink">>

FlagNeverSet(t) == FALSE

\* if (pthread_getspecific(logging_key)) return;
AlreadyLogging(t) == logging[t]

\* av_log hands its events to plex_log_callback once plex_init has set it
Started == log_callback = "plex_log_callback"

plex_log_callback(t, ptr, level, text, allocOk) ==
    /\ Started
    /\ pc[t] \in {"idle"} \cup TransportPcs
    /\ Len(pending[t]) < MaxFragments \/ IsTerminator(text[Len(text)])
    /\ IF ~PassesThreshold(level)
       THEN /\ lastCb' = Observation(t, level, text, allocOk, Forward \o <<"threshold_drop">>,
                                     <<>>, 0, <<>>, "")
            /\ UNCHANGED <<threadLocal, pc, call, lastIssue, pending>>
       ELSE IF AlreadyLogging(t)
       THEN /\ lastCb' = Observation(t, level, text, allocOk, Forward \o <<"reentry_drop">>,
                                     <<>>, 0, <<>>, "")
            /\ UNCHANGED <<threadLocal, pc, call, lastIssue, pending>>
       ELSE IF ~cur_line_key[t] /\ ~allocOk
       THEN /\ lastCb' = Observation(t, level, text, allocOk, Forward \o <<"alloc_fail">>,
                                     <<>>, 0, <<>>, "")
            /\ UNCHANGED <<threadLocal, pc, call, lastIssue, pending>>
       ELSE
         LET cur0 == cur_line[BufferOf(t)]
             f == av_log_format_line(ptr, text, cur0 = <<>>, 1024)
             cur1 == AppendLine(cur0, f.line)
             msg == StripLast(cur1)
             rl == ReporterLevel(level)
             fragments == IF pending[t] = <<>> THEN <<ContextPrefix(ptr) \o text>>
                          ELSE Append(pending[t], text)
             expected == Flatten(fragments)
         IN  /\ cur_line_key' = [cur_line_key EXCEPT ![t] = TRUE]
             /\ IF ~(f.print_prefix /\ Len(cur1) > 0)
                THEN /\ lastCb' = Observation(t, level, text, allocOk, Forward \o <<"format">>,
                                              <<>>, 0, expected, "")
                     /\ cur_line' = [cur_line EXCEPT ![BufferOf(t)] = cur1]
                     /\ pending' = [pending EXCEPT ![t] = fragments]
                     /\ UNCHANGED <<logging, using_http, pc, call, lastIssue>>
                ELSE IF QuietDrop
                THEN /\ lastCb' = Observation(t, level, text, allocOk,
                                      Forward \o <<"format", "PMS_Log", "quiet_drop">>,
                                      msg, rl, expected, cur1[Len(cur1)])
                     /\ cur_line' = [cur_line EXCEPT ![BufferOf(t)] = Cleared(msg)]
                     /\ pending' = [pending EXCEPT ![t] = <<>>]
                     /\ UNCHANGED <<logging, using_http, pc, call, lastIssue>>
                ELSE /\ IssueEnter(t, LogUrl(rl, msg), "POST", "log")
                     /\ pending' = [pending EXCEPT ![t] = <<>>]
                     /\ IF GuardTurnsAway(t)
                        THEN /\ lastCb' = Observation(t, level, text, allocOk,
                                      Forward \o <<"format", "PMS_Log", "turned_away">>,
                                      msg, rl, expected, cur1[Len(cur1)])
                             /\ cur_line' = [cur_line EXCEPT ![BufferOf(t)] = Cleared(msg)]
                             /\ UNCHANGED logging
                        ELSE /\ lastCb' = Observation(t, level, text, allocOk,
                                      Forward \o <<"format", "PMS_Log", "request">>,
                                      msg, rl, expected, cur1[Len(cur1)])
                             /\ cur_line' = [cur_line EXCEPT ![BufferOf(t)] = msg]
                             /\ logging' = [logging EXCEPT ![t] = TRUE]
    /\ lastNote' = NoNote
    /\ UNCHANGED <<shared, config>>

\* ----------------------------------------------------- notifiers, options
ConfiguredAlways(base) == TRUE

\* if (plexContext.progress_url)
Configured(base) == base # NULL

\* what one invocation of a notifier or option handler on thread t met, and
\* whether it called PMS_IssueHttpRequest, with which URL; of the two
\* observations lastCb and lastNote the later one is kept
Noted(t, fn, via, st, ic) ==
    /\ lastNote' = [fn |-> fn, via |-> via, hadBase |-> progress_url # NULL, st |-> st,
                    ic |-> ic,
                    issued |-> IF pc'[t] = "lock" \/ lastIssue' # lastIssue THEN 1 ELSE 0,
                    url |-> IF pc'[t] = "lock" THEN call'[t].url ELSE NoUrl,
                    verb |-> IF pc'[t] = "lock" THEN call'[t].verb ELSE ""]
    /\ lastCb' = NoCb

\* plex_status(str), base being plexContext.progress_url as the call reads it
plex_status(t, base, str) ==
    IF Configured(base)
    THEN IssueEnter(t, [base |-> base, path |-> "", status |-> str], "PUT", "status")
    ELSE UNCHANGED <<using_http, pc, call, lastIssue>>

\* a call of plex_status from the transcoder
ReportStatus(t, str) ==
    /\ Started
    /\ pc[t] = "idle"
    /\ plex_status(t, progress_url, str)
    /\ Noted(t, "plex_status", "call", NoStream, NoContainer)
    /\ UNCHANGED <<shared, config, logging, cur_line_key, cur_line, pending>>

\* plex_opt_progress_url(arg): the base URL is set, then plex_status("startup")
plex_opt_progress_url(arg) ==
    /\ Started
    /\ pc[MainThread] = "idle"
    /\ progress_url' = arg
    /\ plex_status(MainThread, arg, "startup")
    /\ Noted(MainThread, "plex_opt_progress_url", "option", NoStream, NoContainer)
    /\ UNCHANGED <<shared, av_log_level_plex, log_callback, token, logging, cur_line_key,
                   cur_line, pending>>

\* av_log_set_level_plex(level), reached from -loglevel_plex
av_log_set_level_plex(level) ==
    /\ Started
    /\ pc[MainThread] = "idle"
    /\ av_log_level_plex' = level
    /\ UNCHANGED <<shared, progress_url, log_callback, token, threadLocal, pc, call, lastCb,
                   lastNote, lastIssue, pending>>

\* the command lines plex_init scans: with or without -loglevel_plex <level>,
\* with or without -progressurl <url>
Argvs(levels) ==
    {a \in [has_loglevel : BOOLEAN, loglevel : levels \cup {AV_LOG_QUIET},
            progressurl : Urls \cup {NULL}] : a.has_loglevel \/ a.loglevel = AV_LOG_QUIET}

\* plex_init(argc, argv, options), the first thing the transcoder does: the
\* log callback is set, then the two options are looked up in argv and their
\* handlers called ahead of the parsing of the command line
plex_init(argv) ==
    /\ ~Started
    /\ pc[MainThread] = "idle"
    /\ log_callback' = "plex_log_callback"
    /\ av_log_level_plex' = IF argv.has_loglevel THEN argv.loglevel ELSE av_log_level_plex
    /\ IF argv.progressurl # NULL
       THEN /\ progress_url' = argv.progressurl
            /\ plex_status(MainThread, argv.progressurl, "startup")
            /\ Noted(MainThread, "plex_opt_progress_url", "plex_init", NoStream, NoContainer)
       ELSE /\ UNCHANGED <<progress_url, using_http, pc, call, lastIssue>>
            /\ Noted(MainThread, "plex_init", "plex_init", NoStream, NoContainer)
    /\ UNCHANGED <<shared, token, logging, cur_line_key, cur_line, pending>>

DurationUnknown(ic) == 0 - AV_TIME_BASE

\* the duration plex_feedback reports, in units of 1 / AV_TIME_BASE s: -1 s
\* when there is no container or its duration is AV_NOPTS_VALUE
Duration(ic) ==
    IF ic.present /\ ic.duration # AV_NOPTS_VALUE THEN ic.duration ELSE 0 - AV_TIME_BASE

\* plex_feedback(ic)
plex_feedback(t, ic) ==
    /\ Started
    /\ pc[t] = "idle"
    /\ IF Configured(progress_url)
       THEN IssueEnter(t, [base |-> progress_url, path |-> "",
                           duration |-> FormatF(Duration(ic))], "PUT", "feedback")
       ELSE UNCHANGED <<using_http, pc, call, lastIssue>>
    /\ Noted(t, "plex_feedback", "call", NoStream, ic)
    /\ UNCHANGED <<shared, config, logging, cur_line_key, cur_line, pending>>

AttachedPicNever(st) == FALSE
AttachedPicIfUnparsed(st) == "attached_pic" \in st.disposition /\ st.nb_frames = 0

\* st->disposition & AV_DISPOSITION_ATTACHED_PIC
AttachedPic(st) == "attached_pic" \in st.disposition

UnparsedAnyType(st) == st.nb_frames = 0

\* the test plex_report_stream_detail starts with: an audio or video stream
\* with no frame counted is unparsed
Unparsed(st) == st.codec_type \in {"audio", "video"} /\ st.nb_frames = 0

\* plex_report_stream(st); the index, id, codec and profile of the stream are
\* copied into the query and left out here
plex_report_stream(t, st) ==
    /\ Started
    /\ pc[t] = "idle"
    /\ IF Configured(progress_url) /\ st.codec_type \in {"video", "audio"} /\ ~AttachedPic(st)
       THEN IssueEnter(t, [base |-> progress_url, path |-> "/stream",
                           type |-> st.codec_type], "PUT", "stream")
       ELSE UNCHANGED <<using_http, pc, call, lastIssue>>
    /\ Noted(t, "plex_report_stream", "call", st, NoContainer)
    /\ UNCHANGED <<shared, config, logging, cur_line_key, cur_line, pending>>

\* plex_report_stream_detail(st); of the query, the type and the disp_ flags
\* (SEND_DISPOSITION) are kept
plex_report_stream_detail(t, st) ==
    /\ Started
    /\ pc[t] = "idle"
    /\ IF ~Unparsed(st) /\ Configured(progress_url)
          /\ st.codec_type \in {"video", "audio", "subtitle"} /\ ~AttachedPic(st)
       THEN IssueEnter(t, [base |-> progress_url, path |-> "/streamDetail",
                           type |-> st.codec_type,
                           disp |-> st.disposition \cap Dispositions], "PUT", "streamDetail")
       ELSE UNCHANGED <<using_http, pc, call, lastIssue>>
    /\ Noted(t, "plex_report_stream_detail", "call", st, NoContainer)
    /\ UNCHANGED <<shared, config, logging, cur_line_key, cur_line, pending>>

\* ------------------------------------------------------------------- system
\* a run is set by who reports, what is logged and what is reported
NextOn(r) ==
    \/ \E t \in r.threads : Lock(t)
    \/ \E t \in r.threads, ok \in BOOLEAN : Reuse(t, ok)
    \/ \E t \in r.threads, ok \in BOOLEAN : Open(t, ok)
    \/ \E t \in r.threads, a \in r.answers, allocOk \in BOOLEAN,
          n \in {-1, 0, 1, 2, FallbackSize} :
          (allocOk \/ n = -1) /\ Read(t, a, allocOk, n)
    \/ \E t \in r.threads : Unlock(t)
    \/ \E t \in r.threads, ptr \in r.ptrs, level \in r.levels, text \in r.texts :
          \E allocOk \in (IF cur_line_key[t] THEN {TRUE} ELSE BOOLEAN) :
             plex_log_callback(t, ptr, level, text, allocOk)
    \/ \E arg \in Urls : plex_opt_progress_url(arg)
    \/ \E level \in r.thresholds : av_log_set_level_plex(level)
    \/ \E t \in r.threads, ic \in r.containers : plex_feedback(t, ic)
    \/ \E argv \in Argvs(r.thresholds) : plex_init(argv)

\* every thread reports; the events are whole lines
Reporting == [threads |-> Threads, ptrs |-> {NULL}, levels |-> {AV_LOG_ERROR},
              texts |-> {<<"b", "\n">>}, thresholds |-> {AV_LOG_QUIET, AV_LOG_ERROR},
              answers |-> {-1}, containers |-> {NoContainer}, tokens |-> {"abc123"}]
Init == InitOn(Reporting)
Next == NextOn(Reporting)
Spec == Init /\ [][Next]_vars

\* one thread logs lines made of short fragments, at every severity
Logging == [threads |-> {MainThread}, ptrs |-> Ptrs, levels |-> Levels,
            texts |-> ShortTexts, thresholds |-> Thresholds, answers |-> {-1},
            containers |-> {NoContainer}, tokens |-> {"abc123"}]
NextLog == NextOn(Logging)
SpecLog == InitOn(Logging) /\ [][NextLog]_vars

\* one thread logs lines that reach the capacity of the line buffer
LoggingLong == [threads |-> {MainThread}, ptrs |-> Ptrs, levels |-> {AV_LOG_ERROR},
                texts |-> Texts, thresholds |-> {AV_LOG_ERROR}, answers |-> {-1},
                containers |-> {NoContainer}, tokens |-> {"abc123"}]
NextLong == NextOn(LoggingLong)
SpecLong == InitOn(LoggingLong) /\ [][NextLong]_vars

\* one thread reports streams, durations and statuses, under every setting of
\* the token, and the server answers with and without a content length
Notifying == [threads |-> {MainThread}, ptrs |-> {NULL}, levels |-> {AV_LOG_ERROR},
              texts |-> {<<"b", "\n">>}, thresholds |-> {AV_LOG_QUIET, AV_LOG_ERROR},
              answers |-> {-1, 0, 2}, containers |-> Containers, tokens |-> Tokens]
NextNotify ==
    \/ NextOn(Notifying)
    \/ \E t \in Notifying.threads, str \in {"startup"} : ReportStatus(t, str)
    \/ \E t \in Notifying.threads, st \in Streams : plex_report_stream(t, st)
    \/ \E t \in Notifying.threads, st \in Streams : plex_report_stream_detail(t, st)
SpecNotify == InitOn(Notifying) /\ [][NextNotify]_vars

\* every thread logs lines made of fragments, at one severity
Interleaving == [threads |-> Threads, ptrs |-> {NULL}, levels |-> {AV_LOG_ERROR},
                 texts |-> ShortTexts, thresholds |-> {AV_LOG_ERROR}, answers |-> {-1},
                 containers |-> {NoContainer}, tokens |-> {"abc123"}]
NextThreads ==
    \/ \E t \in Threads : Lock(t)
    \/ \E t \in Threads : Open(t, FALSE)
    \/ \E t \in Threads : Unlock(t)
    \/ \E t \in Threads, text \in ShortTexts :
          plex_log_callback(t, NULL, AV_LOG_ERROR, text, TRUE)
    \/ \E argv \in Argvs({AV_LOG_ERROR}) : plex_init(argv)
SpecThreads == InitOn(Interleaving) /\ [][NextThreads]_vars

\* every thread logs whole lines and reports durations; a thread that waits
\* for the request lock gets it when it is released again and again
\* (pthread_mutex_lock), and a thread inside a request goes on, every
\* transport operation ending in success or failure
Contending == [threads |-> Threads, ptrs |-> {NULL}, levels |-> {AV_LOG_ERROR},
               texts |-> {<<"b", "\n">>}, thresholds |-> {AV_LOG_ERROR}, answers |-> {-1},
               containers |-> {NoContainer}, tokens |-> {"abc123"}]
Transport(t) ==
    \/ \E ok \in BOOLEAN : Reuse(t, ok)
    \/ \E ok \in BOOLEAN : Open(t, ok)
    \/ \E allocOk \in BOOLEAN : Read(t, -1, allocOk, IF allocOk THEN 1 ELSE -1)
    \/ Unlock(t)
NextLive ==
    \/ \E t \in Threads : Lock(t)
    \/ \E t \in Threads : Transport(t)
    \/ \E t \in Threads : plex_log_callback(t, NULL, AV_LOG_ERROR, <<"b", "\n">>, TRUE)
    \/ \E t \in Threads : plex_feedback(t, NoContainer)
    \/ \E argv \in Argvs({AV_LOG_ERROR}) : plex_init(argv)
Fairness == \A t \in Threads : SF_vars(Lock(t)) /\ WF_vars(Transport(t))
SpecLive == InitOn(Contending) /\ [][NextLive]_vars /\ Fairness

\* ------------------------------------------------------------------ claims
Holders == {t \in Threads : pc[t] \in {"reuse", "open", "read", "unlock"}}
Last(q) == q[Len(q)]
Has(q, x) == \E i \in 1 .. Len(q) : q[i] = x
Count(q, x) == Cardinality({i \in 1 .. Len(q) : q[i] = x})
AllButLast(q) == [i \in 1 .. Len(q) - 1 |-> q[i]]
Observed == lastCb.trace # <<>>

\* C1: at most one thread at a time is between acquiring and releasing the
\* request lock, and it is the owner of the lock.
C1_OneRequestInFlight ==
    /\ Cardinality(Holders) <= 1
    /\ \A t \in Holders : req_mutex = t
    /\ Holders = {} => req_mutex = NoThread

C1_Witness ==
    \E t, u \in Threads : t # u /\ pc[t] = "read" /\ pc[u] = "lock"

\* C2: a request that failed has closed and cleared the shared handle by the
\* time it releases the lock, and the request that takes the lock next makes
\* no reuse attempt and opens a fresh connection.
C2_FailureTearsDown ==
    /\ \A t \in Threads :
          pc[t] = "unlock" /\ call[t].ret < 0 => ioctx = NULL /\ openConns = 0
    /\ lastFailed /\ req_mutex = NoThread => ioctx = NULL
    /\ \A t \in Holders :
          call[t].afterFailed =>
             /\ pc[t] # "reuse"
             /\ ~call[t].reuseTried
             /\ pc[t] \in {"read", "unlock"} => call[t].openTried

C2_Witness ==
    \E t \in Threads : pc[t] = "read" /\ call[t].afterFailed /\ call[t].openTried

\* a step of plex_log_callback on thread t, for an event of Reporting
CallbackStep(t) ==
    \E ptr \in Reporting.ptrs, level \in Reporting.levels, text \in Reporting.texts,
       allocOk \in BOOLEAN :
       plex_log_callback(t, ptr, level, text, allocOk)

\* did the invocation observed call PMS_IssueHttpRequest
CalledIssue(o) == Has(o.trace, "PMS_Log") /\ Last(o.trace) # "quiet_drop"

\* C3: a call of PMS_IssueHttpRequest by a thread already inside it returns at
\* once: the thread does not go for the lock, no transport step is taken, and
\* the handle, the lock and the thread's flag are as before.
C3_ReentrantCallReturns ==
    [][\A t \in Threads :
          using_http[t] /\ CallbackStep(t) /\ CalledIssue(lastCb') =>
             /\ lastIssue'.turnedAway
             /\ pc' = pc /\ call' = call
             /\ using_http' = using_http
             /\ ioctx' = ioctx /\ req_mutex' = req_mutex /\ openConns' = openConns]_vars

C3_Witness ==
    /\ Observed /\ lastCb.inHttp /\ Last(lastCb.trace) = "turned_away"
    /\ lastIssue.returned /\ lastIssue.turnedAway

\* C4 as claimed: the call turned away returns something other than the null
\* a failed request returns.
C4_TurnedAwayIsNotNull ==
    lastIssue.returned /\ lastIssue.turnedAway => lastIssue.reply # NullReply

\* C4: the call turned away returns null, as a failed request does; a request
\* that succeeded returns a buffer.
C4_TurnedAwayReturnsNull ==
    lastIssue.returned =>
       /\ lastIssue.turnedAway => lastIssue.reply = NullReply
       /\ lastIssue.failed => lastIssue.reply = NullReply
       /\ ~lastIssue.turnedAway /\ ~lastIssue.failed => lastIssue.reply # NullReply

C4_Witness ==
    lastIssue.returned /\ lastIssue.turnedAway /\ lastIssue.reply = NullReply

\* the reporting path: the event is formatted into the line buffer, and the
\* line it ends is sent
ReachedReporting(o) ==
    Has(o.trace, "format") /\ (o.terminated => Has(o.trace, "request"))

\* C5 as claimed: on a thread with neither flag set the event reaches the
\* reporting path exactly when S <= T and T is not quiet.
C5_ReachesIffThreshold ==
    Observed /\ ~lastCb.logging /\ ~lastCb.inHttp =>
       (ReachedReporting(lastCb)
          <=> lastCb.level <= lastCb.threshold /\ lastCb.threshold # AV_LOG_QUIET)

\* C5: on a thread whose logging flag is clear the event is formatted into the
\* line buffer exactly when S <= T and a buffer is to be had; a line it ends
\* is sent as a request exactly when moreover T is not quiet and the thread is
\* not inside PMS_IssueHttpRequest.
C5_ReachesIffThresholdAndBuffer ==
    Observed /\ ~lastCb.logging =>
       /\ Has(lastCb.trace, "format")
             <=> lastCb.level <= lastCb.threshold /\ lastCb.buffer
       /\ Has(lastCb.trace, "request")
             <=> /\ lastCb.level <= lastCb.threshold /\ lastCb.buffer
                 /\ lastCb.terminated
                 /\ lastCb.threshold # AV_LOG_QUIET
                 /\ ~lastCb.inHttp

C5_Witness ==
    /\ Observed /\ ~lastCb.logging
    /\ lastCb.level = AV_LOG_ERROR /\ lastCb.threshold = AV_LOG_ERROR
    /\ Has(lastCb.trace, "request")

\* C6 as claimed: of the fragments of a line that pass a threshold other than
\* quiet and fit the buffer, none is sent before the one that ends the line,
\* and that one causes one request with the whole line less its terminator.
C6_OneSubmissionPerLine ==
    /\ Observed /\ Has(lastCb.trace, "format")
    /\ Len(lastCb.expected) <= LOG_LINE_SIZE - 1
    /\ lastCb.threshold # AV_LOG_QUIET
    =>
       /\ ~lastCb.terminated => ~Has(lastCb.trace, "request")
       /\ lastCb.terminated =>
             /\ Count(lastCb.trace, "request") = 1
             /\ lastCb.msg = AllButLast(lastCb.expected)

\* C6: the same when the threshold is not quiet and the thread is not inside
\* PMS_IssueHttpRequest; the line starts with the context prefix of its first
\* fragment. Under the quiet threshold or inside PMS_IssueHttpRequest the line
\* is handed to PMS_Log and no request is made.
C6_OneSubmissionPerLineOutsideReporter ==
    Observed /\ Has(lastCb.trace, "format") /\ Len(lastCb.expected) <= LOG_LINE_SIZE - 1 =>
       /\ ~lastCb.terminated =>
             ~Has(lastCb.trace, "request") /\ ~Has(lastCb.trace, "PMS_Log")
       /\ lastCb.terminated =>
             /\ Count(lastCb.trace, "PMS_Log") = 1
             /\ lastCb.msg = AllButLast(lastCb.expected)
             /\ Count(lastCb.trace, "request") =
                   IF lastCb.threshold # AV_LOG_QUIET /\ ~lastCb.inHttp THEN 1 ELSE 0

C6_Witness ==
    /\ Observed /\ Has(lastCb.trace, "request")
    /\ lastCb.msg = <<"[", "c", "]", " ", "a", "a", "b">>

\* C7: an event logged on a thread that is inside plex_log_callback's
\* format-and-submit sequence or inside PMS_IssueHttpRequest starts no request.
C7_NestedEventsStartNoRequest ==
    Observed /\ (lastCb.inHttp \/ lastCb.logging) => ~Has(lastCb.trace, "request")

C7_Witness ==
    /\ Observed /\ lastCb.inHttp /\ ~lastCb.logging
    /\ Has(lastCb.trace, "PMS_Log") /\ lastCb.threshold # AV_LOG_QUIET

\* C8: every invocation of plex_log_callback hands the event to the default
\* sink once, before anything else it does.
C8_SinkFirstAndOnce ==
    Observed => lastCb.trace[1] = "sink" /\ Count(lastCb.trace, "sink") = 1

C8_Witness ==
    Observed /\ lastCb.trace = <<"sink", "threshold_drop">>

\* C9: a thread's line buffer never holds more than LOG_LINE_SIZE - 1
\* characters.
C9_BufferWithinCapacity ==
    \A t \in Threads : Len(cur_line[t]) <= LOG_LINE_SIZE - 1

C9_Witness ==
    \E t \in Threads :
       /\ Len(cur_line[t]) = LOG_LINE_SIZE - 1
       /\ Len(Flatten(pending[t])) > LOG_LINE_SIZE - 1

\* C10: the level handed to PMS_Log is ERROR for an event of severity
\* AV_LOG_ERROR or worse, and the severity divided by 8, less 2, otherwise.
C10_ReporterLevel ==
    Observed /\ Has(lastCb.trace, "PMS_Log") =>
       lastCb.rlevel = IF lastCb.level <= AV_LOG_ERROR THEN LOG_LEVEL_ERROR
                       ELSE (lastCb.level \div 8) - 2

C10_Witness ==
    /\ Observed /\ Has(lastCb.trace, "PMS_Log")
    /\ lastCb.level = AV_LOG_ERROR /\ lastCb.rlevel = LOG_LEVEL_ERROR

\* the four notifiers
Notifiers == {"plex_status", "plex_report_stream", "plex_report_stream_detail", "plex_feedback"}
Noticed == lastNote.fn # "none"
Reportable(st) == st.codec_type \in {"video", "audio", "subtitle"}

\* C11: a notifier called with no base URL configured does not call
\* PMS_IssueHttpRequest and leaves the handle, the lock, the connection, the
\* per-thread flags and buffers and every thread's position as they were.
C11_NoUrlNoOp ==
    [][lastNote' # lastNote /\ lastNote'.fn \in Notifiers /\ ~lastNote'.hadBase =>
          /\ lastNote'.issued = 0
          /\ UNCHANGED <<ioctx, req_mutex, openConns, conn_headers, using_http, logging,
                         cur_line_key, cur_line, pc, call, lastIssue, config>>]_vars

C11_Witness ==
    /\ lastNote.fn = "plex_report_stream_detail" /\ ~lastNote.hadBase
    /\ lastNote.st.codec_type = "subtitle" /\ lastNote.st.nb_frames = 3
    /\ ~AttachedPic(lastNote.st)
    /\ lastNote.issued = 0

\* C12 as claimed: a call that configures the base URL issues the startup
\* request when the base URL was not configured before, and only then, so
\* that the request is issued once in the run.
C12_StartupExactlyOnce ==
    lastNote.fn = "plex_opt_progress_url" =>
       (lastNote.issued = 1 <=> ~lastNote.hadBase)

\* C13 as claimed: plex_report_stream_detail calls PMS_IssueHttpRequest for no
\* stream whose frame count is zero.
C13_NoDetailWithoutFrames ==
    lastNote.fn = "plex_report_stream_detail" /\ lastNote.st.nb_frames = 0 =>
       lastNote.issued = 0

\* C13: plex_report_stream_detail makes no request for an audio or video
\* stream whose frame count is zero; a subtitle stream is reported whatever
\* its frame count. A request is made exactly for a video, audio or subtitle
\* stream that is not an attached picture, when a base URL is configured.
C13_NoDetailForUnparsedAudioVideo ==
    lastNote.fn = "plex_report_stream_detail" =>
       (lastNote.issued = 1
          <=> /\ lastNote.hadBase
              /\ Reportable(lastNote.st)
              /\ "attached_pic" \notin lastNote.st.disposition
              /\ ~(lastNote.st.codec_type \in {"audio", "video"}
                   /\ lastNote.st.nb_frames = 0))

C13_Witness ==
    /\ lastNote.fn = "plex_report_stream_detail" /\ lastNote.hadBase
    /\ lastNote.st = [codec_type |-> "video", disposition |-> {"default"}, nb_frames |-> 0]
    /\ lastNote.issued = 0

\* C14: neither plex_report_stream nor plex_report_stream_detail makes a
\* request for a stream with the attached-picture bit set.
C14_NoRequestForAttachedPic ==
    /\ lastNote.fn \in {"plex_report_stream", "plex_report_stream_detail"}
    /\ "attached_pic" \in lastNote.st.disposition
    => lastNote.issued = 0 /\ lastNote.url = NoUrl

C14_Witness ==
    /\ lastNote.fn = "plex_report_stream" /\ lastNote.hadBase
    /\ lastNote.st = [codec_type |-> "video", disposition |-> {"default", "attached_pic"},
                      nb_frames |-> 3]
    /\ lastNote.issued = 0

\* C15: a request that succeeded returns a buffer of size + 1 bytes holding
\* at most size bytes and the terminator at an index no greater than size,
\* size being the declared content length, or 4095 when the length is
\* unknown; a request that failed or was turned away returns null, the buffer
\* freed.
C15_ReplyWithinAllocation ==
    /\ lastIssue.returned /\ ~lastIssue.failed /\ ~lastIssue.turnedAway =>
          /\ lastIssue.size = IF lastIssue.declared < 0 THEN 4095 ELSE lastIssue.declared
          /\ lastIssue.reply.cap = lastIssue.size + 1
          /\ 0 <= lastIssue.reply.len /\ lastIssue.reply.len <= lastIssue.size
          /\ lastIssue.reply.len < lastIssue.reply.cap
    /\ lastIssue.returned /\ (lastIssue.failed \/ lastIssue.turnedAway) =>
          lastIssue.reply = NullReply
    /\ \A t \in Threads : pc[t] = "unlock" /\ call[t].ret < 0 => call[t].reply = NullReply

C15_Witness ==
    /\ lastIssue.returned /\ ~lastIssue.failed /\ ~lastIssue.turnedAway
    /\ lastIssue.declared = 2 /\ lastIssue.reply = [cap |-> 3, len |-> 2]

\* the header lines of a token
HeadersOf(tok) == <<"X-Plex-Token: " \o tok \o "\r\n", "X-Plex-Http-Pipeline: infinite\r\n">>

\* C16: every request made, on a connection just opened or on one reused,
\* carries the token header and the pipelining hint when the token is set and
\* not empty, and neither otherwise.
C16_TokenHeaderOnEveryRequest ==
    \A t \in Threads :
       pc[t] = "read" =>
          call[t].sent = IF token \in {NULL, ""} THEN <<>> ELSE HeadersOf(token)

C16_Witness ==
    \E t \in Threads :
       /\ pc[t] = "read" /\ call[t].reuseTried /\ ~call[t].openTried
       /\ token = "abc123"
       /\ call[t].sent = <<"X-Plex-Token: abc123\r\n", "X-Plex-Http-Pipeline: infinite\r\n">>

\* the text of the durations of Containers
Seconds(ic) ==
    CASE ~ic.present -> "-1.000000"
      [] ic.present /\ ic.duration = AV_NOPTS_VALUE -> "-1.000000"
      [] ic.present /\ ic.duration = 0 -> "0.000000"
      [] ic.present /\ ic.duration = 1500000 -> "1.500000"

\* C17: plex_feedback with a base URL configured makes one PUT request to
\* <base>?duration=<d>, d being -1.000000 without a container or with a
\* duration unknown, and the duration in seconds otherwise.
C17_FeedbackDuration ==
    lastNote.fn = "plex_feedback" /\ lastNote.hadBase =>
       /\ lastNote.issued = 1
       /\ lastNote.verb = "PUT"
       /\ lastNote.url = [base |-> progress_url, path |-> "",
                          duration |-> Seconds(lastNote.ic)]

C17_Witness ==
    /\ lastNote.fn = "plex_feedback" /\ lastNote.hadBase
    /\ lastNote.ic = [present |-> TRUE, duration |-> 1500000]
    /\ lastNote.url.duration = "1.500000"

\* a step in which the request of thread t fails
FailureStep(t) ==
    /\ pc[t] \in TransportPcs /\ pc'[t] \in {"open", "unlock"} /\ pc'[t] # pc[t]
    /\ call'[t].ret < 0

\* the step in which PMS_IssueHttpRequest returns to the caller of thread t
ReturnStep(t) == pc[t] = "unlock" /\ pc'[t] = "idle"

\* C18: a failure changes the connection handle and nothing else of the
\* program's state, and the caller is left as a request that succeeded leaves
\* it: the thread's flags clear, the lock free, the line buffer emptied when
\* the caller is the log callback, the settings as they were. A call turned
\* away leaves the caller the same way.
C18_FailuresStayInside ==
    [][/\ \A t \in Threads :
             FailureStep(t) =>
                UNCHANGED <<req_mutex, using_http, logging, cur_line_key, cur_line, config,
                            pending>>
       /\ \A t \in Threads :
             ReturnStep(t) =>
                /\ ~using_http'[t] /\ ~logging'[t] /\ req_mutex' = NoThread
                /\ cur_line'[t] = IF call[t].from = "log" THEN <<>> ELSE cur_line[t]
                /\ UNCHANGED <<ioctx, config, cur_line_key>>
       /\ \A t \in Threads :
             /\ lastCb' # lastCb /\ lastCb'.trace # <<>> /\ pc[t] \in TransportPcs
             /\ Last(lastCb'.trace) = "turned_away"
             =>
                /\ cur_line'[t] = <<>> /\ ~logging'[t]
                /\ UNCHANGED <<shared, config, pc, call, using_http>>]_vars

C18_Witness ==
    /\ lastIssue.returned /\ lastIssue.failed
    /\ lastNote.fn = "plex_feedback" /\ lastNote.issued = 1
    /\ pc[MainThread] = "idle" /\ ~using_http[MainThread] /\ ioctx = NULL

\* C19: a line is submitted as a POST to <base>/log?level=&message= when a
\* base URL is configured and to the default endpoint's
\* /log?source=Transcoder&level=&message= otherwise, the message escaped; a
\* line that passes a threshold other than quiet is submitted with or without
\* a base URL.
C19_LogUrl ==
    /\ \A t \in Threads :
          pc[t] # "idle" /\ call[t].from = "log" =>
             /\ call[t].verb = "POST"
             /\ call[t].url.path = "/log"
             /\ call[t].url.base = IF progress_url # NULL THEN progress_url
                                   ELSE "http://127.0.0.1:32400"
             /\ call[t].url.source = (progress_url = NULL)
             /\ pc[t] = "lock" /\ Observed /\ Last(lastCb.trace) = "request" =>
                   /\ call[t].url.level = lastCb.rlevel
                   /\ call[t].url.message = [i \in 1 .. Len(lastCb.msg) |->
                                                EscapeChar(lastCb.msg[i])]
    /\ Observed /\ lastCb.terminated /\ Has(lastCb.trace, "format")
       /\ lastCb.threshold # AV_LOG_QUIET /\ ~lastCb.inHttp
       => Last(lastCb.trace) = "request"

C19_Witness ==
    /\ pc[MainThread] = "lock" /\ call[MainThread].from = "log"
    /\ progress_url = NULL
    /\ call[MainThread].url.source
    /\ call[MainThread].url.message = <<"%5B", "c", "%5D", "%20", "a", "b">>

\* C20: a call of PMS_IssueHttpRequest is turned away only when the calling
\* thread itself is inside PMS_IssueHttpRequest; a thread that calls while
\* another thread is inside goes for the lock, can take it as soon as it is
\* free, and then runs its own request.
C20_GuardIsPerThread ==
    /\ Observed /\ Last(lastCb.trace) = "turned_away" => lastCb.inHttp
    /\ Noticed /\ lastNote.issued = 1 => lastNote.url # NoUrl
    /\ \A t \in Threads :
          pc[t] = "lock" =>
             /\ using_http[t] /\ call[t].from # "none"
             /\ req_mutex = NoThread => ENABLED Lock(t)

C20_Witness ==
    \E t, u \in Threads :
       /\ t # u /\ pc[u] = "open" /\ using_http[u]
       /\ pc[t] = "lock" /\ call[t].from = "log"

\* the step in which thread t leaves the position p of PMS_IssueHttpRequest
Leaves(t, p) == pc[t] = p /\ pc'[t] # p

\* C22: a request that finds a handle tries it first, once; a connection is
\* opened, once, only when there is no handle or the attempt on the handle
\* failed and the handle was discarded; after a failed open, allocation or
\* read the call returns without a further attempt.
C22_ReuseThenOpenOnce ==
    /\ [](\A t \in Threads :
            /\ pc[t] = "reuse" =>
                  ioctx # NULL /\ ~call[t].reuseTried /\ ~call[t].openTried
            /\ pc[t] = "open" =>
                  /\ ioctx = NULL /\ ~call[t].openTried
                  /\ call[t].reuseTried => call[t].ret < 0
            /\ pc[t] = "read" =>
                  /\ ioctx # NULL /\ call[t].ret = 0
                  /\ call[t].reuseTried # call[t].openTried \/ call[t].openTried)
    /\ [][\A t \in Threads :
            /\ Leaves(t, "lock") => pc'[t] = IF ioctx # NULL THEN "reuse" ELSE "open"
            /\ Leaves(t, "reuse") =>
                  pc'[t] = IF call'[t].ret < 0 THEN "open" ELSE "read"
            /\ Leaves(t, "open") =>
                  pc'[t] = IF call'[t].ret < 0 THEN "unlock" ELSE "read"
            /\ Leaves(t, "read") => pc'[t] = "unlock"
            /\ Leaves(t, "unlock") => pc'[t] = "idle"]_vars

C22_Witness ==
    \E t \in Threads :
       /\ pc[t] = "read" /\ call[t].reuseTried /\ call[t].openTried
       /\ ioctx # NULL

\* C23: the logging flag of a thread is set only while the thread's own
\* format-and-submit sequence runs, and is clear when the callback has
\* returned; an invocation that returns early leaves the flag as it was.
C23_LoggingFlagCleared ==
    /\ [](\A t \in Threads :
            logging[t] => pc[t] # "idle" /\ call[t].from = "log")
    /\ [][\A t \in Threads :
            /\ pc[t] # "idle" /\ pc'[t] = "idle" => ~logging'[t]
            /\ /\ lastCb' # lastCb /\ lastCb'.trace # <<>>
               /\ Last(lastCb'.trace) \in {"threshold_drop", "reentry_drop", "alloc_fail",
                                           "format", "quiet_drop", "turned_away"}
               => logging' = logging]_vars

C23_Witness ==
    /\ Observed /\ Last(lastCb.trace) = "request"
    /\ lastIssue.returned /\ lastIssue.failed
    /\ pc[MainThread] = "idle" /\ ~logging[MainThread]

\* C24: a thread's in-reporter flag is set exactly while the thread is inside
\* PMS_IssueHttpRequest, and a thread that is not between the lock and the
\* unlock does not own the request lock: after every return, of a request
\* that succeeded or failed, the flag is clear and the lock released.
C24_FlagAndLockReleased ==
    \A t \in Threads :
       /\ using_http[t] <=> pc[t] # "idle"
       /\ pc[t] \in {"idle", "lock"} => req_mutex # t

C24_Witness ==
    /\ lastIssue.returned /\ ~lastIssue.turnedAway /\ lastIssue.failed
    /\ req_mutex = NoThread
    /\ \A t \in Threads : pc[t] = "idle" /\ ~using_http[t]

\* C25: at most one connection is open at any time, and the handle is NULL
\* exactly when none is: no connection outlives the handle that referred to it.
C25_OneConnection ==
    /\ openConns \in {0, 1}
    /\ ioctx = NULL <=> openConns = 0

C25_Witness ==
    \E t \in Threads :
       /\ pc[t] = "unlock" /\ call[t].reuseTried /\ call[t].openTried /\ call[t].ret >= 0
       /\ openConns = 1

\* C26 as claimed: the character removed from the buffer before a line is
\* handed to PMS_Log is the line terminator.
C26_StrippedIsTerminator ==
    Observed /\ Has(lastCb.trace, "PMS_Log") => IsTerminator(lastCb.stripped)

\* C27: the buffer of a thread holds the fragments the thread accepted since
\* its last line end and nothing else; once a line was handed to PMS_Log the
\* buffer is empty, whether the line was sent, dropped under the quiet
\* threshold, turned away or its request failed.
C27_BufferEmptiedAfterSubmit ==
    /\ \A t \in Threads :
          /\ ~logging[t] =>
                cur_line[t] = IF pending[t] = <<>> THEN <<>> ELSE Flatten(pending[t])
          /\ logging[t] => pending[t] = <<>>
    /\ Observed /\ Last(lastCb.trace) \in {"quiet_drop", "turned_away"} =>
          cur_line[MainThread] = <<>>

C27_Witness ==
    /\ Observed /\ Last(lastCb.trace) = "turned_away" /\ lastCb.msg = <<"a", "b">>
    /\ cur_line[MainThread] = <<>>

\* C29: an event dropped because its severity is above the threshold or
\* because the logging flag of the thread is set leaves the line buffers, the
\* logging flags and the state of the reporter as they were.
C29_DroppedEventChangesNothing ==
    [][/\ lastCb' # lastCb /\ lastCb'.trace # <<>>
       /\ lastCb'.level > lastCb'.threshold \/ lastCb'.logging
       => UNCHANGED <<cur_line, cur_line_key, logging, pending, ioctx, req_mutex, openConns,
                      conn_headers, using_http, pc, call, lastIssue>>]_vars

C29_Witness ==
    /\ Observed /\ lastCb.logging /\ lastCb.level <= lastCb.threshold
    /\ Last(lastCb.trace) = "reentry_drop"
    /\ cur_line[MainThread] # <<>>

\* C30: no streamDetail request carries disp_attached_pic.
C30_NoAttachedPicFlag ==
    /\ \A t \in Threads :
          pc[t] # "idle" /\ call[t].from = "streamDetail" =>
             "attached_pic" \notin call[t].url.disp
    /\ lastNote.fn = "plex_report_stream_detail" /\ lastNote.issued = 1 =>
          "attached_pic" \notin lastNote.url.disp

C30_Witness ==
    /\ lastNote.fn = "plex_report_stream_detail" /\ lastNote.issued = 1
    /\ lastNote.url.disp = {"default"}

C28_LinesPerThread ==
    /\ \A t \in Threads :
          /\ ~logging[t] => cur_line[t] = Flatten(pending[t])
          /\ logging[t] => call[t].url.message = av_bprint_escape(cur_line[t])
    /\ Observed /\ Has(lastCb.trace, "PMS_Log") =>
          lastCb.msg = AllButLast(lastCb.expected)

C28_Witness ==
    \E t, u \in Threads :
       /\ t # u /\ cur_line[t] = <<"a">> /\ ~logging[t]
       /\ logging[u] /\ call[u].url.message = <<"a", "b">>

====
